---- MODULE Spec2Model ----
(***************************************************************************)
(* Model of src/src/sensors/lidar.py: the Lidar enumeration and            *)
(* LidarExtraction (construction, extract(), the three per-sensor          *)
(* decoders, savePLY and saveCSV).                                         *)
(*                                                                         *)
(* Collaborators that are not part of lidar.py are modelled by their       *)
(* contract: BaseExtraction (isAvailable, getPathSave), msg_to_timestamp,  *)
(* yaml/LaserProjection (a scan whose ranges hold a non-numeric token      *)
(* cannot be projected; a beam is kept when its range is below range_max), *)
(* pc2.read_points[_list] (tuples of the requested fields, points holding  *)
(* a NaN skipped) and open3d's writer (writes the file or raises).         *)
(***************************************************************************)
EXTENDS Integers, Sequences, FiniteSets, TLC

(* ----------------------------- bounds ---------------------------------- *)
MaxBags == 2        \* log segments handed to the extractor
MaxMsgs == 1        \* messages on the topic per segment
MaxPts  == 2        \* points (or beams) per message

(* ----------------------------- Lidar ----------------------------------- *)
HOKUYO   == "hokuyo"
OUSTER   == "ouster"
VELODYNE == "velodyne"

\* variant: the list also admits "radar"
Lidar_list_open == {HOKUYO, OUSTER, VELODYNE, "radar"}
\* Lidar.list()
Lidar_list == {HOKUYO, OUSTER, VELODYNE}

\* sensor_type values a caller may pass to the constructor
SensorArgs == {HOKUYO, OUSTER, VELODYNE, "radar"}

CLOUD_HEADER == "timestamp [ns]"

(* ------------------------ strings and filenames ------------------------ *)
DigitChar == <<"0", "1", "2", "3", "4", "5", "6", "7", "8", "9">>

\* str(timestamp): the decimal digits of a natural number
RECURSIVE str(_)
str(n) == IF n < 10 THEN <<DigitChar[n + 1]>>
          ELSE str(n \div 10) \o <<DigitChar[(n % 10) + 1]>>

\* filename = str(timestamp) + ".ply"
FileName(timestamp) == str(timestamp) \o <<".", "p", "l", "y">>

\* code point of a character occurring in a filename
Ord(c) == CASE c = "." -> 46
            [] c = "0" -> 48 [] c = "1" -> 49 [] c = "2" -> 50 [] c = "3" -> 51
            [] c = "4" -> 52 [] c = "5" -> 53 [] c = "6" -> 54 [] c = "7" -> 55
            [] c = "8" -> 56 [] c = "9" -> 57
            [] c = "l" -> 108 [] c = "p" -> 112 [] c = "y" -> 121

\* a < b for two strings, as numpy compares unicode arrays (by code point,
\* a proper prefix first)
RECURSIVE StrLess(_, _)
StrLess(a, b) ==
    IF b = <<>> THEN FALSE
    ELSE IF a = <<>> THEN TRUE
    ELSE IF Ord(Head(a)) /= Ord(Head(b)) THEN Ord(Head(a)) < Ord(Head(b))
    ELSE StrLess(Tail(a), Tail(b))

RECURSIVE Insert(_, _)
Insert(s, e) == IF s = <<>> THEN <<e>>
                ELSE IF StrLess(e, Head(s)) THEN <<e>> \o s
                ELSE <<Head(s)>> \o Insert(Tail(s), e)

RECURSIVE SortStrings(_)
SortStrings(a) == IF a = <<>> THEN <<>>
                  ELSE Insert(SortStrings(Tail(a)), Head(a))

\* variant: the accumulator is emitted in processing order
np_sort_noop(a) == a
\* np.sort(np.array(data)): ascending, elementwise string comparison
np_sort(a) == SortStrings(a)


\* saveCSV(data): data.csv with the header line, then one row per entry
saveCSV(rows) == [exists |-> TRUE, header |-> "# " \o CLOUD_HEADER, rows |-> rows]

NoCSV == [exists |-> FALSE, header |-> "", rows |-> <<>>]

(* ----------------------------- messages -------------------------------- *)
SeqUpTo(S, n) == UNION {[1..m -> S] : m \in 0..n}

\* header stamps (ns) the log reader may deliver; "10.ply" sorts before
\* "9.ply" as a string
Timestamps == {9, 10}

\* a missing (NaN) value of a point field
NaN == -1

\* PointCloud2 points: x, y, z, intensity, ring, the Ouster offset t (ns) and
\* the Velodyne time (seconds, carried here in units of 0.1 ns)
RawPoints ==
    { [x |-> 1,   y |-> 2, z |-> 3, intensity |-> 0, ring |-> 0, t |-> 0, time |-> 0],
      [x |-> 1,   y |-> 2, z |-> 3, intensity |-> 7, ring |-> 1, t |-> 2, time |-> 20000000],
      [x |-> NaN, y |-> 2, z |-> 3, intensity |-> 7, ring |-> 1, t |-> 2, time |-> 20000000] }

\* tokens of the "ranges" list in str(msg) of a LaserScan
RangeTokens == {"5", "nan", "inf"}
NumericTokens == {"5", "60"}
TokenValue(tok) == CASE tok = "5" -> 5 [] tok = "60" -> 60

\* range_max values a scan may carry
RangeMaxes == {60, 100}

NoMsg == [stamp |-> 0, range_max |-> 0, ranges |-> <<>>, points |-> <<>>]

LaserScanMsgs == [stamp : Timestamps, range_max : RangeMaxes,
                  ranges : SeqUpTo(RangeTokens, MaxPts), points : {<<>>}]

PointCloudMsgs == [stamp : Timestamps, range_max : {0},
                   ranges : {<<>>}, points : SeqUpTo(RawPoints, MaxPts)]

\* what the topic of a run carries
MsgsFor(lidar) == IF lidar = HOKUYO THEN LaserScanMsgs ELSE PointCloudMsgs

\* utils.tools.msg_to_timestamp: the header stamp of the message, in ns
msg_to_timestamp(m) == m.stamp

(* ----------------------------- decoding -------------------------------- *)
\* pc2.read_points_list(cloud, field_names, skip_nans=True)
read_points_list(points, field_names) ==
    LET tuple(p) == [i \in 1..Len(field_names) |-> p[field_names[i]]]
        has_nan(tp) == \E i \in 1..Len(tp) : tp[i] = NaN
        all == [n \in 1..Len(points) |-> tuple(points[n])]
    IN  SelectSeq(all, LAMBDA tp : ~has_nan(tp))

\* variant: only the first "nan" is replaced (replace with count 1)
str_replace_first(text) ==
    LET first == CHOOSE i \in 1..(Len(text) + 1) :
                    /\ (i <= Len(text) => text[i] = "nan")
                    /\ \A j \in 1..(i - 1) : text[j] /= "nan"
    IN  [i \in 1..Len(text) |-> IF i = first THEN "60" ELSE text[i]]
\* msg.replace("nan", "60")
str_replace(text) ==
    [i \in 1..Len(text) |-> IF text[i] = "nan" THEN "60" ELSE text[i]]

\* loadHokuyo(msg): yaml.safe_load, LaserScan, projectLaser.  Raises when a
\* range is not a number; projects the beams whose range is below range_max.
loadHokuyo(text, range_max) ==
    LET ok == \A i \in 1..Len(text) : text[i] \in NumericTokens
        beams == [i \in 1..Len(text) |-> <<i, text[i]>>]
        kept == SelectSeq(beams, LAMBDA b : TokenValue(b[2]) < range_max)
    IN  IF ok
        THEN [ok |-> TRUE,
              cloud |-> [n \in 1..Len(kept) |->
                           [x |-> TokenValue(kept[n][2]), y |-> kept[n][1], z |-> 0]]]
        ELSE [ok |-> FALSE, cloud |-> <<>>]

OusterFields   == <<"x", "y", "z", "intensity", "t", "ring">>
VelodyneFields == <<"x", "y", "z", "intensity", "ring">>
HokuyoFields   == <<"x", "y", "z">>

\* int(t_s * 1e9) with t_s in units of 0.1 ns: truncation
SecondsToNs(t_s) == t_s \div 10

\* body of the loop of singleOuster over one point tuple
OusterPoint(pt) == [xyz |-> <<pt[1], pt[2], pt[3]>>, irt |-> <<pt[4], pt[6], pt[5]>>]

\* body of the loop of singleVelodyne over one point tuple: the tuple is
\* unpacked into 5 names when available_point_time, into 6 otherwise
VelodyneUnpacks(pt, apt) == IF apt THEN Len(pt) = 5 ELSE Len(pt) = 6

VelodynePoint(pt, apt) ==
    IF apt THEN [xyz |-> <<pt[1], pt[2], pt[3]>>, irt |-> <<pt[4], pt[5], 0>>]
    ELSE [xyz |-> <<pt[1], pt[2], pt[3]>>, irt |-> <<pt[4], pt[5], SecondsToNs(pt[6])>>]

\* variant: the test is on the length of the array
ndarray_any_len(normals) == Len(normals) > 0
\* normals.any()
ndarray_any(normals) ==
    \E i \in 1..Len(normals) : \E j \in 1..Len(normals[i]) : normals[i][j] /= 0

\* the file savePLY leaves on disk: the point count, and the normals
\* channel when normals.any()
PlyFile(points, normals) ==
    [npoints |-> Len(points),
     has_normals |-> ndarray_any(normals),
     nnormals |-> IF ndarray_any(normals) THEN Len(normals) ELSE 0]

\* variant: an entry already present is not appended again
list_append_unique(l, e) == IF \E i \in 1..Len(l) : l[i] = e THEN l ELSE Append(l, e)
\* data.append(filename)
list_append(l, e) == Append(l, e)

(* ------------------------------- state --------------------------------- *)
VARIABLES
    bags,                  \* self.bags: the message count of the topic, per segment
    sensor,                \* self.sensor ("none" before construction)
    available_point_time,  \* self.available_point_time
    phase,                 \* New, ConfigError, Idle, Extracting, Done, Failed
    error,                 \* none, config, decode, write: the exception raised
    pc,                    \* position in __init__ / extract / single<Sensor>
    idx, k,                \* extract: segment index, messages read from it
    msg,                   \* the message handed to single<Sensor>
    text,                  \* singleHokuyo: the local msg = str(msg)
    parses,                \* singleHokuyo: calls of loadHokuyo for this message
    cloud,                 \* singleHokuyo: the projected cloud
    filename,              \* the frame's filename
    xyz_s, irt_s,          \* the arrays handed to savePLY
    data,                  \* extract: the manifest accumulator
    disk,                  \* point-cloud files in path_save: {[name, file]}
    csv,                   \* data.csv in path_save
    csvWrites,             \* calls of saveCSV
    delivered,             \* stamps of the messages read so far, in order
    nWritten               \* frames whose savePLY has returned

vars == <<bags, sensor, available_point_time, phase, error, pc, idx, k, msg,
          text, parses, cloud, filename, xyz_s, irt_s, data, disk, csv,
          csvWrites, delivered, nWritten>>

config == <<bags, sensor, available_point_time>>
locals == <<msg, text, parses, cloud, filename, xyz_s, irt_s>>
outputs == <<disk, csv, csvWrites>>

Init ==
    /\ bags \in SeqUpTo(0..MaxMsgs, MaxBags)
    /\ sensor = "none"
    /\ available_point_time = FALSE
    /\ phase = "New"
    /\ error = "none"
    /\ pc = "new"
    /\ idx = 0 /\ k = 0
    /\ msg = NoMsg
    /\ text = <<>> /\ parses = 0 /\ cloud = <<>>
    /\ filename = <<>>
    /\ xyz_s = <<>> /\ irt_s = <<>>
    /\ data = <<>>
    /\ disk = {}
    /\ csv = NoCSV
    /\ csvWrites = 0
    /\ delivered = <<>>
    /\ nWritten = 0

(* ---------------------------- construction ----------------------------- *)
\* LidarExtraction.__init__(topic, bags, path_root, lidar)
Construct ==
    /\ pc = "new"
    /\ \E lidar \in SensorArgs :
          IF lidar \notin Lidar_list
          THEN /\ phase' = "ConfigError"
               /\ error' = "config"
               /\ pc' = "raised"
               /\ UNCHANGED <<sensor, available_point_time>>
          ELSE /\ sensor' = lidar
               /\ available_point_time' = FALSE
               /\ phase' = "Idle"
               /\ pc' = "idle"
               /\ UNCHANGED error
    /\ UNCHANGED <<bags, idx, k, locals, data, outputs, delivered, nWritten>>

(* ------------------------------ extract -------------------------------- *)
\* BaseExtraction.isAvailable: some segment has a message on the topic
isAvailable == \E i \in 1..Len(bags) : bags[i] > 0

\* variant: the availability check is missing
ReturnsEarly_never == FALSE
\* extract: "if not self.isAvailable(): return"
ReturnsEarly == ~isAvailable

ExtractSkip ==
    /\ pc = "idle"
    /\ ReturnsEarly
    /\ pc' = "returned"
    /\ UNCHANGED <<config, phase, error, idx, k, locals, data, outputs,
                   delivered, nWritten>>

\* initialize(); data = []; entry of the loop over the bags
ExtractBegin ==
    /\ pc = "idle"
    /\ ~ReturnsEarly
    /\ phase' = "Extracting"
    /\ data' = <<>>
    /\ idx' = 1 /\ k' = 0
    /\ pc' = "loop"
    /\ UNCHANGED <<config, error, locals, outputs, delivered, nWritten>>

\* variant: the manifest is written on the way out, as by a finally clause
ExceptionExit_finally(kind) ==
    /\ phase' = "Failed"
    /\ error' = kind
    /\ pc' = "raised"
    /\ csv' = saveCSV(np_sort(data))
    /\ csvWrites' = csvWrites + 1
    /\ UNCHANGED <<config, idx, disk, nWritten>>
\* an exception leaves extract(): nothing after the raise runs
ExceptionExit(kind) ==
    /\ phase' = "Failed"
    /\ error' = kind
    /\ pc' = "raised"
    /\ UNCHANGED <<config, idx, outputs, nWritten>>

\* the inner loop is exhausted: next segment
NextBag ==
    /\ pc = "loop"
    /\ idx <= Len(bags)
    /\ k = bags[idx]
    /\ idx' = idx + 1
    /\ k' = 0
    /\ UNCHANGED <<config, phase, error, pc, locals, data, outputs, delivered,
                   nWritten>>

\* singleHokuyo(m): msg = str(msg); try: cloud = self.loadHokuyo(msg)
singleHokuyo(m) ==
    /\ LET r == loadHokuyo(m.ranges, m.range_max)
       IN  /\ text' = m.ranges
           /\ parses' = 1
           /\ cloud' = r.cloud
           /\ pc' = IF r.ok THEN "hokuyo_append" ELSE "hokuyo_except"
    /\ UNCHANGED <<config, phase, error, idx, filename, xyz_s, irt_s, data,
                   outputs, nWritten>>

\* singleOuster(m) up to the call of savePLY
singleOuster(m) ==
    /\ filename' = FileName(msg_to_timestamp(m))
    /\ data' = list_append(data, filename')
    /\ LET points == read_points_list(m.points, OusterFields)
       IN  /\ xyz_s' = [n \in 1..Len(points) |-> OusterPoint(points[n]).xyz]
           /\ irt_s' = [n \in 1..Len(points) |-> OusterPoint(points[n]).irt]
    /\ pc' = "savePLY"
    /\ UNCHANGED <<config, phase, error, idx, text, parses, cloud, outputs,
                   nWritten>>

\* singleVelodyne(m) up to the call of savePLY; the unpacking of a point
\* raises when the tuple has the wrong length
singleVelodyne(m) ==
    /\ filename' = FileName(msg_to_timestamp(m))
    /\ data' = list_append(data, filename')
    /\ LET points == read_points_list(m.points, VelodyneFields)
           apt == available_point_time
       IN  IF \A n \in 1..Len(points) : VelodyneUnpacks(points[n], apt)
           THEN /\ xyz_s' = [n \in 1..Len(points) |-> VelodynePoint(points[n], apt).xyz]
                /\ irt_s' = [n \in 1..Len(points) |-> VelodynePoint(points[n], apt).irt]
                /\ pc' = "savePLY"
                /\ UNCHANGED <<config, phase, error, idx, outputs, nWritten>>
           ELSE /\ ExceptionExit("decode")
                /\ UNCHANGED <<xyz_s, irt_s>>
    /\ UNCHANGED <<text, parses, cloud>>

\* extract: the next message of the segment is read and handed to the
\* decoder of self.sensor (no branch for any other value)
ForMsg ==
    /\ pc = "loop"
    /\ idx <= Len(bags)
    /\ k < bags[idx]
    /\ \E m \in MsgsFor(sensor) :
          /\ k' = k + 1
          /\ delivered' = Append(delivered, m.stamp)
          /\ IF sensor = HOKUYO THEN msg' = m /\ singleHokuyo(m)
             ELSE IF sensor = OUSTER THEN msg' = m /\ singleOuster(m)
             ELSE IF sensor = VELODYNE THEN msg' = m /\ singleVelodyne(m)
             ELSE UNCHANGED <<config, phase, error, pc, idx, locals, data,
                              outputs, nWritten>>

\* singleHokuyo: except: msg = msg.replace("nan", "60"); cloud = loadHokuyo(msg)
SingleHokuyoExcept ==
    /\ pc = "hokuyo_except"
    /\ LET r == loadHokuyo(str_replace(text), msg.range_max)
       IN  /\ text' = str_replace(text)
           /\ parses' = 2
           /\ cloud' = r.cloud
           /\ IF r.ok
              THEN /\ pc' = "hokuyo_append"
                   /\ UNCHANGED <<config, phase, error, idx, outputs, nWritten>>
              ELSE ExceptionExit("decode")
    /\ UNCHANGED <<k, delivered, msg, filename, xyz_s, irt_s, data>>

\* singleHokuyo: timestamp, filename, data.append, read_points
SingleHokuyoAppend ==
    /\ pc = "hokuyo_append"
    /\ filename' = FileName(msg_to_timestamp(msg))
    /\ data' = list_append(data, filename')
    /\ xyz_s' = read_points_list(cloud, HokuyoFields)
    /\ irt_s' = <<>>
    /\ pc' = "savePLY"
    /\ UNCHANGED <<config, phase, error, idx, k, msg, text, parses, cloud,
                   outputs, delivered, nWritten>>

\* savePLY returns: the file named filename is created or overwritten
SavePLY ==
    /\ pc = "savePLY"
    /\ disk' = {e \in disk : e.name /= filename}
                  \cup {[name |-> filename, file |-> PlyFile(xyz_s, irt_s)]}
    /\ nWritten' = nWritten + 1
    /\ pc' = "loop"
    /\ msg' = NoMsg
    /\ text' = <<>> /\ parses' = 0 /\ cloud' = <<>>
    /\ filename' = <<>>
    /\ xyz_s' = <<>> /\ irt_s' = <<>>
    /\ UNCHANGED <<config, phase, error, idx, k, data, csv, csvWrites, delivered>>

\* variant: the failure of the writer is swallowed and the loop goes on
SavePLYRaises_swallowed ==
    /\ pc = "savePLY"
    /\ pc' = "loop"
    /\ msg' = NoMsg
    /\ text' = <<>> /\ parses' = 0 /\ cloud' = <<>>
    /\ filename' = <<>>
    /\ xyz_s' = <<>> /\ irt_s' = <<>>
    /\ UNCHANGED <<config, phase, error, idx, k, data, outputs, delivered, nWritten>>
\* savePLY raises (the writer fails): the exception leaves extract()
SavePLYRaises ==
    /\ pc = "savePLY"
    /\ ExceptionExit("write")
    /\ UNCHANGED <<k, delivered, locals, data>>

\* after the loops: data = np.sort(np.array(data)); self.saveCSV(data)
Finish ==
    /\ pc = "loop"
    /\ idx > Len(bags)
    /\ data' = np_sort(data)
    /\ csv' = saveCSV(data')
    /\ csvWrites' = csvWrites + 1
    /\ phase' = "Done"
    /\ pc' = "returned"
    /\ UNCHANGED <<config, error, idx, k, locals, disk, delivered, nWritten>>

Next ==
    \/ Construct
    \/ ExtractSkip
    \/ ExtractBegin
    \/ NextBag
    \/ ForMsg
    \/ SingleHokuyoExcept
    \/ SingleHokuyoAppend
    \/ SavePLY
    \/ SavePLYRaises
    \/ Finish

Spec == Init /\ [][Next]_vars

(* ------------------------- auxiliary definitions ------------------------ *)
RECURSIVE Total(_)
Total(counts) == IF counts = <<>> THEN 0 ELSE Head(counts) + Total(Tail(counts))

Count(s, e) == Cardinality({i \in DOMAIN s : s[i] = e})

Ascending(rows) == \A i \in 1..(Len(rows) - 1) : ~StrLess(rows[i + 1], rows[i])

DiskNames == {e.name : e \in disk}

Supported == {"hokuyo", "ouster", "velodyne"}

\* a point of a PointCloud2 message with a missing coordinate
MissingCoordinate(p) == p.x = NaN \/ p.y = NaN \/ p.z = NaN

\* N of a message: its points with no missing coordinate; for a scan, its
\* numeric ranges below range_max
NValid(m) ==
    Cardinality({i \in DOMAIN m.points : ~MissingCoordinate(m.points[i])})
    + Cardinality({i \in DOMAIN m.ranges :
                     m.ranges[i] = "5" /\ TokenValue("5") < m.range_max})

\* the message consists of valid and missing points (beams) only
OnlyValidOrMissing(m) == \A i \in DOMAIN m.ranges : m.ranges[i] \in {"5", "nan"}

(* ------------------------------- claims -------------------------------- *)

\* C1: when extract() completes, the rows of the manifest are in ascending
\* order of filename string and are, as a multiset, the filenames of the
\* frames read; so the manifest is the same for every order of delivery.
C1_ManifestSortedOrderFree ==
    phase = "Done" =>
        /\ Ascending(csv.rows)
        /\ Len(csv.rows) = Len(delivered)
        /\ \A t \in Timestamps : Count(csv.rows, FileName(t)) = Count(delivered, t)

\* C1 witness: stamps 9 then 10 were delivered, and the manifest lists
\* "10.ply" before "9.ply"
C1_Witness ==
    /\ phase = "Done"
    /\ delivered = <<9, 10>>
    /\ csv.rows = <<FileName(10), FileName(9)>>

C2_State ==
    /\ csvWrites <= 1
    /\ csv.exists <=> csvWrites = 1
    /\ csv.exists => /\ phase = "Done"
                     /\ Len(delivered) = Total(bags)
                     /\ nWritten = Len(delivered)
    /\ phase = "Failed" => ~csv.exists

C2_Step ==
    /\ phase' /= phase =>
          <<phase, phase'>> \in {<<"New", "Idle">>, <<"New", "ConfigError">>,
                                 <<"Idle", "Extracting">>,
                                 <<"Extracting", "Done">>,
                                 <<"Extracting", "Failed">>}
    /\ phase' = "Failed" => disk' = disk

\* C2: the manifest is written at most once, only after every message of
\* every segment has been decoded and written; a run goes Idle, Extracting,
\* then Done or Failed; a failed run has no manifest and keeps the
\* point-cloud files written before the failure.
C2_ManifestOnceAfterAllFrames == [](C2_State) /\ [][C2_Step]_vars

\* C2 witness: a run failed after a file had been written
C2_Witness == phase = "Failed" /\ disk /= {} /\ ~csv.exists

\* C3 as stated: every entry of the accumulator names a frame whose
\* point-cloud file has already been written.
C3_AppendAfterWrite == Len(data) <= nWritten

\* C3 amended: the entry is appended before the file is written; every
\* entry but the last names a written frame, the last may be the frame in
\* savePLY or the frame whose decode or write failed, and every row of an
\* emitted manifest names a written frame.
C3_AppendBeforeWrite ==
    /\ nWritten <= Len(data)
    /\ Len(data) <= nWritten + 1
    /\ Len(data) = nWritten + 1 => pc = "savePLY" \/ phase = "Failed"
    /\ \A i \in 1..nWritten : data[i] \in DiskNames
    /\ csv.exists => /\ Len(csv.rows) = nWritten
                     /\ \A i \in 1..Len(csv.rows) : csv.rows[i] \in DiskNames

\* C3 witness: the write of a frame failed and the frame's entry is in the
\* accumulator
C3_Witness ==
    /\ phase = "Failed"
    /\ error = "write"
    /\ Len(data) = nWritten + 1
    /\ data[Len(data)] \notin DiskNames

\* C4: with no segment, or no message on the topic in any segment, extract()
\* returns without error, and no point-cloud file and no manifest exists.
C4_NothingAvailableNoOutput ==
    Total(bags) = 0 =>
        /\ disk = {}
        /\ ~csv.exists /\ csvWrites = 0
        /\ phase \in {"New", "ConfigError", "Idle"}
        /\ error \in {"none", "config"}
        /\ pc \in {"new", "raised", "idle", "returned"}

\* C4 witness: extract() has returned on segments that hold no message
C4_Witness == pc = "returned" /\ Len(bags) > 0 /\ Total(bags) = 0

C5_State ==
    sensor = HOKUYO =>
        /\ parses <= 2
        /\ pc = "hokuyo_except" =>
              /\ parses = 1
              /\ text = msg.ranges
              /\ \E i \in DOMAIN text : text[i] \in {"nan", "inf"}
        /\ (parses = 1 /\ pc \in {"hokuyo_append", "savePLY"}) =>
              /\ text = msg.ranges
              /\ \A i \in DOMAIN text : text[i] \notin {"nan", "inf"}
        /\ parses = 2 =>
              /\ \E i \in DOMAIN msg.ranges : msg.ranges[i] \in {"nan", "inf"}
              /\ Len(text) = Len(msg.ranges)
              /\ \A i \in DOMAIN text :
                    text[i] = IF msg.ranges[i] = "nan" THEN "60" ELSE msg.ranges[i]
              /\ pc \in {"hokuyo_append", "savePLY"} =>
                    \A i \in DOMAIN text : text[i] /= "inf"
        /\ (phase = "Failed" /\ error = "decode") =>
              /\ parses = 2
              /\ \E i \in DOMAIN text : text[i] = "inf"
              /\ nWritten = Len(delivered) - 1
              /\ Len(data) = nWritten

\* C5: a scan is parsed at most twice; a first parse that succeeds uses the
\* payload unmodified; a first parse that fails is retried once with every
\* "nan" token replaced by 60; a failed retry leaves extract() with no file
\* for the frame and no further step of the run.
C5_HokuyoRetryOnce == [](C5_State) /\ [][phase /= "Failed"]_vars

\* C5 witness: the retry succeeded on a scan that held a "nan" range
C5_Witness ==
    /\ sensor = HOKUYO
    /\ parses = 2
    /\ pc = "hokuyo_append"
    /\ \E i \in DOMAIN msg.ranges : msg.ranges[i] = "nan"

\* C6: for Velodyne with available_point_time = FALSE decoding succeeds and
\* each point's time offset is round(time * 1e9).
C6_VelodyneTimeOffset ==
    (sensor = VELODYNE /\ ~available_point_time) =>
        /\ ~(phase = "Failed" /\ error = "decode")
        /\ pc = "savePLY" =>
              LET valid == SelectSeq(msg.points, LAMBDA p : ~MissingCoordinate(p))
              IN  /\ Len(irt_s) = Len(valid)
                  /\ \A n \in 1..Len(valid) :
                        irt_s[n][3] = (valid[n].time + 5) \div 10

\* C7: for each sensor type, decoding a message of N valid and M missing
\* points succeeds and yields exactly N points.
C7_ExactlyValidPoints ==
    /\ pc = "savePLY" => Len(xyz_s) = NValid(msg)
    /\ (phase = "Failed" /\ error = "decode") => ~OnlyValidOrMissing(msg)

\* C8: an unsupported sensor_type fails at construction with a configuration
\* error, before any message is read and with no output; no extractor with
\* an unsupported sensor_type exists in any later phase.
C8_UnsupportedSensorRejected ==
    /\ phase = "ConfigError" =>
          /\ error = "config" /\ pc = "raised"
          /\ sensor = "none"
          /\ delivered = <<>>
          /\ disk = {} /\ ~csv.exists
    /\ phase \in {"Idle", "Extracting", "Done", "Failed"} => sensor \in Supported

\* C8 witness: construction was refused
C8_Witness == phase = "ConfigError" /\ error = "config"

\* C9: every return of savePLY leaves the file with the frame's points, and
\* with the normals channel (one triple per point) exactly when some
\* attribute value of the frame is nonzero.
C9_NormalsIffNonzero ==
    [][(pc = "savePLY" /\ pc' = "loop") =>
          \E e \in disk' :
              /\ e.name = filename
              /\ e.file.npoints = Len(xyz_s)
              /\ e.file.has_normals <=>
                    \E n \in DOMAIN irt_s : irt_s[n] /= <<0, 0, 0>>
              /\ e.file.nnormals = IF e.file.has_normals THEN Len(xyz_s) ELSE 0]_vars

\* C9 witness: an Ouster frame of points with all-zero attributes, and a
\* frame with attributes, are on disk: the first without, the second with
\* the normals channel
C9_Witness ==
    /\ sensor = OUSTER
    /\ \E e \in disk : e.file.npoints > 0 /\ ~e.file.has_normals
    /\ \E e \in disk : e.file.has_normals /\ e.file.nnormals = e.file.npoints

C10_State ==
    phase = "Done" =>
        /\ Len(csv.rows) = Total(bags)
        /\ Len(csv.rows) = Len(delivered)
        /\ DiskNames = {csv.rows[i] : i \in DOMAIN csv.rows}
        /\ Cardinality(disk) = Cardinality(DiskNames)
        /\ Cardinality(disk) <= Len(csv.rows)

C10_Step ==
    (pc = "savePLY" /\ pc' = "loop") =>
        /\ Cardinality({e \in disk' : e.name = filename}) = 1
        /\ {e \in disk' : e.name /= filename} = {e \in disk : e.name /= filename}

\* C10: a completed run's manifest has one row per message read, duplicates
\* kept, while the directory holds one file per distinct filename (the
\* later write replaces the earlier one).
C10_RowPerMessage == [](C10_State) /\ [][C10_Step]_vars

\* C10 witness: two messages with the same stamp gave two equal rows and
\* one file
C10_Witness ==
    /\ phase = "Done"
    /\ Len(csv.rows) = 2
    /\ csv.rows[1] = csv.rows[2]
    /\ Cardinality(disk) = 1

====
